---------------------------- MODULE Spec2Model ----------------------------
(***************************************************************************)
(* Model of src/yaml.c: the Yorick binding of the libyaml event API.       *)
(*                                                                         *)
(* The state is the set of user objects the interpreter holds (event       *)
(* slots, parsers, emitters), the ownership of every event content the     *)
(* engine has built, and the outcome of the last built-in call.  One       *)
(* action models one built-in (Y_yaml_open, Y_yaml_parse, Y_yaml_emit, the *)
(* ten event constructors, the on_extract and on_free callbacks).  The     *)
(* libyaml engine is not part of src/: each engine call is a               *)
(* nondeterministic success or failure chosen by the action's input.       *)
(***************************************************************************)
EXTENDS Integers, Sequences, FiniteSets, TLC

(***************************************************************************)
(* Bounds of the model.                                                    *)
(***************************************************************************)
\* number of event contents the engine builds in one run
MaxContents == 2
\* number of arguments of one constructor call
MaxArgs == 2
\* number of event arguments of one emit call
MaxEmitArgs == 2
\* number of pieces a version text is assembled from
MaxPieces == 3
\* number of runs of the body of initialize() that are counted
MaxRuns == 3

\* handles of the user objects the interpreter can hold at one time
SlotOrder == <<"e1", "e2">>
Slots == {SlotOrder[i] : i \in 1..Len(SlotOrder)}
ParserIds == {"p1"}
EmitterIds == {"m1"}

(***************************************************************************)
(* C strings are sequences of one-character strings; reading at or past    *)
(* the end yields the terminating NUL.                                     *)
(***************************************************************************)
NUL == "NUL"
Digits == {"0", "1", "2", "3", "4", "5", "6", "7", "8", "9"}
Spaces == {" "}

CharAt(str, i) == IF i <= Len(str) THEN str[i] ELSE NUL

DigitValue(c) ==
  CASE c = "0" -> 0 [] c = "1" -> 1 [] c = "2" -> 2 [] c = "3" -> 3
    [] c = "4" -> 4 [] c = "5" -> 5 [] c = "6" -> 6 [] c = "7" -> 7
    [] c = "8" -> 8 [] c = "9" -> 9

\* isspace() loop of parse_integer: the string with its leading spaces removed
RECURSIVE SkipSpaces(_)
SkipSpaces(str) ==
  IF CharAt(str, 1) \in Spaces THEN SkipSpaces(Tail(str)) ELSE str

(***************************************************************************)
(* Machine integers.  A long is four 16-bit limbs, least significant       *)
(* first (64 bits); an int is the two low limbs (32 bits).                 *)
(***************************************************************************)
LimbBase == 2^16
LongZero == <<0, 0, 0, 0>>

\* 10*value + d on the limbs, with the carry out of bit 63
MulAdd10(value, d) ==
  LET t0 == 10 * value[1] + d
      t1 == 10 * value[2] + (t0 \div LimbBase)
      t2 == 10 * value[3] + (t1 \div LimbBase)
      t3 == 10 * value[4] + (t2 \div LimbBase)
  IN [limbs |-> <<t0 % LimbBase, t1 % LimbBase, t2 % LimbBase, t3 % LimbBase>>,
      carry |-> t3 \div LimbBase]

\* a long is negative (as a signed value) when bit 63 is set
LongSignBit(value) == value[4] >= LimbBase \div 2

\* the digit loop of parse_integer: value = 10*value + (c - '0') while the
\* next character is a digit.  ovf records a signed overflow of the long.
\* (Here and below, an intermediate value the code computes once is bound
\* once, as the only element of a set: CHOOSE out \in {e(x) : x \in {v}}.)
RECURSIVE DigitLoop(_, _, _)
DigitLoop(str, value, ovf) ==
  IF CharAt(str, 1) \in Digits
    THEN CHOOSE out \in
           {DigitLoop(Tail(str), r.limbs,
                      ovf \/ r.carry > 0 \/ LongSignBit(r.limbs))
              : r \in {MulAdd10(value, DigitValue(str[1]))}} : TRUE
    ELSE [rest |-> str, value |-> value, ovf |-> ovf]

\* A C string pointer: NULL, or the characters up to the terminating NUL.
NullStr == [null |-> TRUE, s |-> <<>>]
CStr(s) == [null |-> FALSE, s |-> s]

\* parse_integer(str, ptr, flags): ptr is the returned pointer (NULL on
\* error, else the unparsed suffix); value and neg give *ptr; ovf tells that
\* the digit loop overflowed the long.
ParseFailed == [ptr |-> NullStr, value |-> LongZero, neg |-> FALSE,
                ovf |-> FALSE]

parse_integer(str, flags) ==
  IF str.null THEN ParseFailed
  ELSE
    LET s1 == IF "TRIM_LEFT" \in flags THEN SkipSpaces(str.s) ELSE str.s
        signed == "NO_SIGN" \notin flags /\ CharAt(s1, 1) \in {"+", "-"}
        neg == signed /\ CharAt(s1, 1) = "-"
        s2 == IF signed THEN Tail(s1) ELSE s1
    IN IF CharAt(s2, 1) \notin Digits THEN ParseFailed
       ELSE CHOOSE out \in
              {[ptr |-> CStr(IF "TRIM_RIGHT" \in flags THEN SkipSpaces(r.rest)
                             ELSE r.rest),
                value |-> r.value, neg |-> neg, ovf |-> r.ovf]
                 : r \in {DigitLoop(Tail(s2), <<DigitValue(s2[1]), 0, 0, 0>>,
                                    FALSE)}} : TRUE

\* assignment of a long to an int field: the low 32 bits are kept
LongToInt(value) == <<value[1], value[2]>>

(***************************************************************************)
(* sprintf(buffer, "%ld", val): the decimal text of a long.                *)
(***************************************************************************)
DigitChar(d) ==
  CASE d = 0 -> "0" [] d = 1 -> "1" [] d = 2 -> "2" [] d = 3 -> "3"
    [] d = 4 -> "4" [] d = 5 -> "5" [] d = 6 -> "6" [] d = 7 -> "7"
    [] d = 8 -> "8" [] d = 9 -> "9"

\* quotient and remainder of an unsigned 64-bit value by 10, limb by limb
DivMod10(value) ==
  LET c3 == value[4]
      c2 == (c3 % 10) * LimbBase + value[3]
      c1 == (c2 % 10) * LimbBase + value[2]
      c0 == (c1 % 10) * LimbBase + value[1]
  IN [quot |-> <<c0 \div 10, c1 \div 10, c2 \div 10, c3 \div 10>>,
      rem |-> c0 % 10]

\* the digits of an unsigned 64-bit value, none for zero
RECURSIVE Decimal(_)
Decimal(value) ==
  IF value = LongZero THEN <<>>
  ELSE CHOOSE out \in {Decimal(qr.quot) \o <<DigitChar(qr.rem)>>
         : qr \in {DivMod10(value)}} : TRUE

\* the magnitude of a negative long: its two's complement, as unsigned
Negate(value) ==
  LET n0 == (LimbBase - 1 - value[1]) + 1
      n1 == (LimbBase - 1 - value[2]) + (n0 \div LimbBase)
      n2 == (LimbBase - 1 - value[3]) + (n1 \div LimbBase)
      n3 == (LimbBase - 1 - value[4]) + (n2 \div LimbBase)
  IN <<n0 % LimbBase, n1 % LimbBase, n2 % LimbBase, n3 % LimbBase>>

sprintf_ld(val) ==
  IF val = LongZero THEN <<"0">>
  ELSE IF LongSignBit(val) THEN <<"-">> \o Decimal(Negate(val))
  ELSE Decimal(val)

(***************************************************************************)
(* Doubles.  A double is NaN, an infinity, or the finite value             *)
(* (+/-) half/2 with half/2 < 100000, which "%g" prints exactly (six       *)
(* significant digits, trailing zeros and point removed).  neg is the      *)
(* sign bit, which -0.0 and a NaN may carry.                               *)
(***************************************************************************)
Double(kind, neg, half) == [kind |-> kind, neg |-> neg, half |-> half]

RECURSIVE NatDigits(_)
NatDigits(n) ==
  IF n = 0 THEN <<>> ELSE NatDigits(n \div 10) \o <<DigitChar(n % 10)>>

sprintf_g(d) ==
  (IF d.neg THEN <<"-">> ELSE <<>>)
    \o (CASE d.kind = "nan" -> <<"n", "a", "n">>
           [] d.kind = "inf" -> <<"i", "n", "f">>
           [] OTHER ->
                (IF d.half \div 2 = 0 THEN <<"0">> ELSE NatDigits(d.half \div 2))
                  \o (IF d.half % 2 = 1 THEN <<".", "5">> ELSE <<>>))

fabs(d) == [d EXCEPT !.neg = FALSE]
\* d >= 0 in C: false for a NaN, true for -0.0
GreaterEqualZero(d) ==
  /\ d.kind # "nan"
  /\ ~d.neg \/ (d.kind = "finite" /\ d.half = 0)

\* sprintf_complex printing the imaginary part with its sign
sprintf_complex_no_fabs(re, im) ==
  sprintf_g(re) \o <<" ">>
    \o (IF GreaterEqualZero(im) THEN <<"+">> ELSE <<"-">>) \o <<" ">>
    \o sprintf_g(im) \o <<"i", "m">>

\* sprintf(buffer, "%g %s %gim", arr[0], (arr[1] >= 0 ? "+" : "-"), fabs(arr[1]))
sprintf_complex(re, im) ==
  sprintf_g(re) \o <<" ">>
    \o (IF GreaterEqualZero(im) THEN <<"+">> ELSE <<"-">>) \o <<" ">>
    \o sprintf_g(fabs(im)) \o <<"i", "m">>

(***************************************************************************)
(* Event kinds (yaml_event_type_t), constructors and their keywords.       *)
(***************************************************************************)
EventTypes == {"YAML_STREAM_START_EVENT", "YAML_STREAM_END_EVENT",
               "YAML_DOCUMENT_START_EVENT", "YAML_DOCUMENT_END_EVENT",
               "YAML_ALIAS_EVENT", "YAML_SCALAR_EVENT",
               "YAML_SEQUENCE_START_EVENT", "YAML_SEQUENCE_END_EVENT",
               "YAML_MAPPING_START_EVENT", "YAML_MAPPING_END_EVENT"}
AllEventTypes == EventTypes \cup {"YAML_NO_EVENT"}

\* the constructors that scan keywords, and those that take one argument
KeywordCtors == {"stream_start_event", "document_start_event",
                 "document_end_event", "alias_event", "scalar_event",
                 "sequence_start_event", "mapping_start_event"}
SimpleCtors == {"stream_end_event", "sequence_end_event", "mapping_end_event"}
Ctors == KeywordCtors \cup SimpleCtors

\* the event kind a constructor's yaml_*_event_initialize builds
CtorType(c) ==
  CASE c = "stream_start_event"   -> "YAML_STREAM_START_EVENT"
    [] c = "stream_end_event"     -> "YAML_STREAM_END_EVENT"
    [] c = "document_start_event" -> "YAML_DOCUMENT_START_EVENT"
    [] c = "document_end_event"   -> "YAML_DOCUMENT_END_EVENT"
    [] c = "alias_event"          -> "YAML_ALIAS_EVENT"
    [] c = "scalar_event"         -> "YAML_SCALAR_EVENT"
    [] c = "sequence_start_event" -> "YAML_SEQUENCE_START_EVENT"
    [] c = "sequence_end_event"   -> "YAML_SEQUENCE_END_EVENT"
    [] c = "mapping_start_event"  -> "YAML_MAPPING_START_EVENT"
    [] c = "mapping_end_event"    -> "YAML_MAPPING_END_EVENT"

\* the message of the y_error a constructor raises when the engine's
\* yaml_*_event_initialize fails
InitializeError(c) ==
  CASE c = "stream_start_event"   -> "failed to initialize STREAM-START event"
    [] c = "stream_end_event"     -> "failed to initialize STREAM-END event"
    [] c = "document_start_event" -> "failed to initialize DOCUMENT-START event"
    [] c = "document_end_event"   -> "failed to initialize DOCUMENT-END event"
    [] c = "alias_event"          -> "failed to initialize ALIAS event"
    [] c = "scalar_event"         -> "failed to initialize SCALAR event"
    [] c = "sequence_start_event" -> "failed to initialize SEQUENCE-START event"
    [] c = "sequence_end_event"   -> "failed to initialize SEQUENCE-END event"
    [] c = "mapping_start_event"  -> "failed to initialize MAPPING-START event"
    [] c = "mapping_end_event"    -> "failed to initialize MAPPING-END event"

\* the keywords each constructor's argument loop compares the key with
CtorKeywords(c) ==
  CASE c = "stream_start_event"   -> {"encoding"}
    [] c = "document_start_event" -> {"implicit", "version"}
    [] c = "document_end_event"   -> {"implicit"}
    [] c = "alias_event"          -> {"anchor"}
    [] c = "scalar_event"         -> {"anchor", "tag", "value", "plain_implicit",
                                      "quoted_implicit", "style"}
    [] c = "sequence_start_event" -> {"anchor", "tag", "style", "implicit"}
    [] c = "mapping_start_event"  -> {"anchor", "tag", "style", "implicit"}
    [] OTHER                      -> {}

\* the keywords read with ygets_q (a string is required), with ygets_i (an
\* integer is required) and with yarg_true (any value)
StringKeywords == {"anchor", "tag"}
IntKeywords == {"encoding", "style"}
FlagKeywords == {"implicit", "plain_implicit", "quoted_implicit"}

(***************************************************************************)
(* Interpreter values.  k is the kind of the value on the stack:           *)
(* "nil", "str" (a string, s its characters), "str0" (the NULL string),    *)
(* "hugestr" (a string longer than INT_MAX), "int" (l the long it holds),  *)
(* "real" (z[1] the double), "cplx" (z the real and imaginary parts), and  *)
(* "other" (anything else).                                                *)
(***************************************************************************)
DoubleZero == Double("finite", FALSE, 0)
Val(k, s) == [k |-> k, s |-> s, l |-> LongZero, z |-> <<DoubleZero, DoubleZero>>]
IntVal(l) == [Val("int", <<>>) EXCEPT !.l = l]
RealVal(d) == [Val("real", <<>>) EXCEPT !.z = <<d, DoubleZero>>]
CplxVal(re, im) == [Val("cplx", <<>>) EXCEPT !.z = <<re, im>>]
\* ygets_l, ygets_d and ygeta_z on a number
ygets_l(v) == v.l
ygets_d(v) == v.z[1]
ygeta_z(v) == v.z
NilVal == Val("nil", <<>>)

\* yarg_number: 1 integer, 2 floating point, 3 complex, 0 not a number
yarg_number(v) ==
  CASE v.k = "int" -> 1 [] v.k = "real" -> 2 [] v.k = "cplx" -> 3 [] OTHER -> 0
yarg_string(v) == v.k \in {"str", "str0", "hugestr"}
yarg_nil(v) == v.k = "nil"
\* ygets_q fails unless the value is a scalar string; ygets_i unless an integer
ygets_q_ok(v) == yarg_string(v)
ygets_i_ok(v) == v.k = "int"
ygets_q(v) == IF v.k \in {"str", "hugestr"} THEN CStr(v.s) ELSE NullStr

(***************************************************************************)
(* State.                                                                  *)
(***************************************************************************)
VARIABLES
  events,      \* event_t objects: alloc, init, and the yaml_event_t they hold
  contents,    \* every event content built by the engine: owner, deletions
  parsers,     \* parser_t objects
  emitters,    \* emitter_t objects
  initialized, \* the static flag set by initialize()
  keyword_index, \* the static keyword indexes, -1 until resolved
  runs,        \* how many times the body of initialize() has run
  last,        \* the last built-in call and its arguments
  err,         \* the message of the y_error it raised, "" when it returned
  trace,       \* the engine and libc calls it made, in order
  result,      \* the value it pushed (on_extract)
  text         \* the version text or the scalar value a call is given

vars == <<events, contents, parsers, emitters, initialized, keyword_index,
          runs, last, err, trace, result, text>>

\* the keywords whose global index initialize() resolves (lines 70-78); a name
\* has one index in the interpreter's table of globals
Keywords == {"anchor", "encoding", "implicit", "plain_implicit",
             "quoted_implicit", "style", "tag", "value", "version"}
yget_global(name) ==
  CASE name = "anchor" -> 11 [] name = "encoding" -> 12
    [] name = "implicit" -> 13 [] name = "plain_implicit" -> 14
    [] name = "quoted_implicit" -> 15 [] name = "style" -> 16
    [] name = "tag" -> 17 [] name = "value" -> 18 [] name = "version" -> 19
\* INIT(s): if (s_index == -1L) s_index = yget_global(#s, 0)
initialize(index) ==
  [k \in Keywords |-> IF index[k] = -1 THEN yget_global(k) ELSE index[k]]

\* version_directive of a DOCUMENT-START event: set = FALSE is the NULL pointer
IntZero == <<0, 0>>
NoVersion == [set |-> FALSE, major |-> IntZero, minor |-> IntZero]
\* data.scalar of a SCALAR event: the value and length given to the engine
NoScalar == [value |-> NullStr, length |-> 0]

\* an event_t: cid names the content the yaml_event_t points to (0: none);
\* the struct is not cleared by the binding, so cid outlives init
NoEvent == [alloc |-> FALSE, init |-> FALSE, cid |-> 0,
            type |-> "YAML_NO_EVENT", ver |-> NoVersion, scalar |-> NoScalar]
\* push_event: a new object with init = FALSE
push_event == [NoEvent EXCEPT !.alloc = TRUE]

ContentIds == 1..MaxContents
\* owner: "unborn", "slot" (an event_t holds it), "engine" (handed to the
\* emitter), "deleted"; deleted counts yaml_event_delete calls on it, emitted
\* counts yaml_emitter_emit calls on it
NoContent == [owner |-> "unborn", deleted |-> 0, emitted |-> 0]
FreshIds(cs) == {c \in ContentIds : cs[c].owner = "unborn"}
FreshId(cs) == CHOOSE c \in FreshIds(cs) : \A d \in FreshIds(cs) : c <= d

\* one entry of the trace of a call
Step(what, cid) == [what |-> what, cid |-> cid]

\* yaml_event_delete(&obj->event): the content is released
yaml_event_delete(cs, cid) ==
  IF cid \in ContentIds
    THEN [cs EXCEPT ![cid].owner = "deleted", ![cid].deleted = @ + 1]
    ELSE cs

\* free_event (on_free): deletes the content when the event is initialized
free_event(st, s) ==
  IF st.ev[s].init
    THEN [st EXCEPT !.cs = yaml_event_delete(st.cs, st.ev[s].cid),
                    !.tr = Append(st.tr, Step("yaml_event_delete", st.ev[s].cid))]
    ELSE st

\* get_event_fresh with the deletion forgotten: the old content is overwritten
get_event_fresh_leak(st, s) == st

\* get_event_fresh that deletes the content but leaves init set
get_event_fresh_keep_init(st, s) ==
  IF st.ev[s].init
    THEN [st EXCEPT !.cs = yaml_event_delete(st.cs, st.ev[s].cid),
                    !.tr = Append(st.tr, Step("yaml_event_delete", st.ev[s].cid))]
    ELSE st

\* the FRESH branch of get_event on an existing object (lines 716-719).  The
\* yaml_event_t of an event whose init is FALSE is never read (extract_event
\* and get_event_type test init first), so type and ver are blanked with it.
get_event_fresh(st, s) ==
  IF st.ev[s].init
    THEN [st EXCEPT !.ev[s].init = FALSE,
                    !.ev[s].type = "YAML_NO_EVENT",
                    !.ev[s].ver = NoVersion,
                    !.ev[s].scalar = NoScalar,
                    !.cs = yaml_event_delete(st.cs, st.ev[s].cid),
                    !.tr = Append(st.tr, Step("yaml_event_delete", st.ev[s].cid))]
    ELSE st


(***************************************************************************)
(* Arguments of a constructor call, in the order the caller wrote them.    *)
(* a = "pos": an event object; a = "nil": a nil positional argument;       *)
(* a = "kw": a keyword key=val.  On the interpreter stack a positional     *)
(* argument is one cell and a keyword is two (the key, then its value);    *)
(* iarg = argc-1 is the first cell and iarg = 0 the top of the stack.      *)
(***************************************************************************)
Pos(s) == [a |-> "pos", slot |-> s, key |-> "", val |-> NilVal]
PosNil == [a |-> "nil", slot |-> "", key |-> "", val |-> NilVal]
Kw(k, v) == [a |-> "kw", slot |-> "", key |-> k, val |-> v]

Cell(c, s, k, v) == [c |-> c, slot |-> s, key |-> k, val |-> v]
ArgCells(a) ==
  CASE a.a = "pos" -> <<Cell("obj", a.slot, "", NilVal)>>
    [] a.a = "nil" -> <<Cell("nil", "", "", NilVal)>>
    [] a.a = "kw"  -> <<Cell("key", "", a.key, NilVal), Cell("val", "", "", a.val)>>

RECURSIVE Flatten(_)
Flatten(args) ==
  IF Len(args) = 0 THEN <<>> ELSE ArgCells(Head(args)) \o Flatten(Tail(args))

\* yarg_key(iarg) >= 0: the cell is a keyword key
yarg_key_is_keyword(cell) == cell.c = "key"

\* the working state of one constructor call: the objects (ev, cs), the
\* trace (tr), the local obj ("NULL", a slot, or "new" for an object pushed
\* by push_event), the error raised, the cells not yet visited, the version
\* directive and the scalar value collected so far (value, the C string;
\* huge, whether its strlen exceeds INT_MAX; length); ub is what a signed
\* overflow does in this run (one of UBOutcomes)
CallState(ev, cs, ub) ==
  [ev |-> ev, cs |-> cs, tr |-> <<>>, obj |-> "NULL", err |-> "",
   cells |-> <<>>, ver |-> NoVersion, ub |-> ub, value |-> NullStr,
   huge |-> FALSE, length |-> 0]

Raise(st, msg) == [st EXCEPT !.err = msg]

\* get_event(iarg, NIL_OK|FRESH) on the cell at iarg.  push_event grows the
\* stack by one, so every cell below moves one index up: the loop's next
\* iarg then names the cell after the next one, and index 0 is the new object.
get_event(st, cell, rest) ==
  CASE cell.c = "nil" ->
         [st EXCEPT !.obj = "new",
                    !.cells = IF Len(rest) = 0 THEN <<>>
                              ELSE Tail(rest) \o <<Cell("new", "", "", NilVal)>>]
    [] cell.c = "obj" ->
         [get_event_fresh(st, cell.slot) EXCEPT !.obj = cell.slot, !.cells = rest]
    [] OTHER -> Raise(st, "expecting a yaml_event object")

\* the version keyword of document_start_event (lines 878-898)
version_keyword(st, v) ==
  IF yarg_nil(v) THEN st
  ELSE IF ~ygets_q_ok(v) THEN Raise(st, "expecting scalar string argument")
  ELSE IF ygets_q(v).null THEN Raise(st, "bad version number")
  ELSE CHOOSE out \in
    {IF a.ovf /\ st.ub = "crash" THEN Raise(st, "SIGABRT")
     ELSE IF a.ptr.null \/ CharAt(a.ptr.s, 1) # "."
       THEN Raise(st, "bad version number")
     ELSE CHOOSE done \in
       {IF b.ovf /\ st.ub = "crash" THEN Raise(st, "SIGABRT")
        ELSE IF b.ptr.null \/ CharAt(b.ptr.s, 1) # NUL
          THEN Raise(st, "bad version number")
        ELSE [st EXCEPT !.ver = [set |-> TRUE, major |-> LongToInt(a.value),
                                 minor |-> LongToInt(b.value)]]
          : b \in {parse_integer(CStr(Tail(a.ptr.s)), {"NO_SIGN"})}} : TRUE
       : a \in {parse_integer(ygets_q(v), {"NO_SIGN"})}} : TRUE

\* the value keyword of scalar_event (lines 1034-1057)
value_keyword(st, v) ==
  IF yarg_number(v) = 1
    THEN [st EXCEPT !.value = CStr(sprintf_ld(ygets_l(v))), !.huge = FALSE]
  ELSE IF yarg_number(v) = 2
    THEN [st EXCEPT !.value = CStr(sprintf_g(ygets_d(v))), !.huge = FALSE]
  ELSE IF yarg_number(v) = 3
    THEN [st EXCEPT !.value = CStr(sprintf_complex(ygeta_z(v)[1],
                                                   ygeta_z(v)[2])),
                    !.huge = FALSE]
  ELSE IF yarg_string(v)
    THEN [st EXCEPT !.value = ygets_q(v), !.huge = (v.k = "hugestr")]
  ELSE Raise(st, "value must be a string or a numerical scalar")

\* one keyword of the argument loop of constructor c
keyword_argument(c, st, key, v) ==
  IF key \notin CtorKeywords(c) THEN Raise(st, "unknown keyword")
  ELSE IF key = "version" THEN version_keyword(st, v)
  ELSE IF key = "value" THEN value_keyword(st, v)
  ELSE IF key \in StringKeywords /\ ~ygets_q_ok(v)
    THEN Raise(st, "expecting scalar string argument")
  ELSE IF key \in IntKeywords /\ ~ygets_i_ok(v)
    THEN Raise(st, "expecting scalar integer argument")
  ELSE st

\* for (iarg = argc - 1; iarg >= 0; --iarg) { ... } of the keyword constructors
RECURSIVE argument_loop(_, _)
argument_loop(c, st) ==
  IF st.err # "" \/ Len(st.cells) = 0 THEN st
  ELSE
    LET cell == Head(st.cells)
        rest == Tail(st.cells)
    IN IF ~yarg_key_is_keyword(cell)
         THEN IF st.obj = "NULL"
                THEN CHOOSE out \in {argument_loop(c, next)
                       : next \in {get_event(st, cell, rest)}} : TRUE
                ELSE Raise(st, "too many arguments")
         ELSE CHOOSE out \in {argument_loop(c, next)
                : next \in {[keyword_argument(c, st, cell.key, Head(rest).val)
                               EXCEPT !.cells = Tail(rest)]}} : TRUE

\* the length check of scalar_event (lines 1069-1077)
scalar_length(c, st) ==
  IF c # "scalar_event" \/ st.err # "" THEN st
  ELSE IF st.value.null \/ (~st.huge /\ CharAt(st.value.s, 1) = NUL)
    THEN [st EXCEPT !.length = 0]
  ELSE IF st.huge THEN Raise(st, "integer overflow")
  ELSE [st EXCEPT !.length = Len(st.value.s)]

\* "Manage to push/let the result on top of the stack" (lines 826-830)
push_result(st) ==
  IF st.err = "" /\ st.obj = "NULL" THEN [st EXCEPT !.obj = "new"] ELSE st

\* the call up to the engine's yaml_*_event_initialize
before_initialize(c, args, ub) ==
  CHOOSE out \in
    {IF c \in KeywordCtors
       THEN CHOOSE scanned \in {push_result(checked)
              : checked \in {scalar_length(c, looped)
                  : looped \in {argument_loop(c, st0)}}} : TRUE
       ELSE IF Len(st0.cells) # 1
              THEN Raise(st0, "expecting exactly one argument")
              ELSE get_event(st0, Head(st0.cells), <<>>)
       : st0 \in {[CallState(events, contents, ub)
                     EXCEPT !.cells = Flatten(args)]}} : TRUE


(***************************************************************************)
(* Outcomes of undefined behaviour: the process is killed, or it goes on   *)
(* with what the usual build computes.                                     *)
(***************************************************************************)
UBOutcomes == {"crash", "continue"}
Crashed == err \in {"SIGSEGV", "SIGABRT"}

FreeSlots(ev) == {s \in Slots : ~ev[s].alloc}
\* the first free handle, in SlotOrder
FreeSlot(ev) ==
  SlotOrder[CHOOSE i \in 1..Len(SlotOrder) :
              /\ SlotOrder[i] \in FreeSlots(ev)
              /\ \A j \in 1..(i - 1) : SlotOrder[j] \notin FreeSlots(ev)]

\* what a call is recorded as: the built-in, its event arguments in order, its
\* parser or emitter, whether get_event ran on the first positional event,
\* and the member name given to on_extract
Call(op, slots, obj, reached, field) ==
  [op |-> op, slots |-> slots, obj |-> obj, reached |-> reached,
   field |-> field]
NoField == [pre |-> "", suf |-> ""]

\* the positional event objects of an argument list, in order
RECURSIVE PositionalSlots(_)
PositionalSlots(args) ==
  IF Len(args) = 0 THEN <<>>
  ELSE (IF Head(args).a = "pos" THEN <<Head(args).slot>> ELSE <<>>)
       \o PositionalSlots(Tail(args))

\* obj->init = TRUE after a successful yaml_*_event_initialize(&obj->event)
initialize_event(st, s, type, ver) ==
  LET cid == FreshId(st.cs)
  IN [st EXCEPT !.ev[s] = [alloc |-> TRUE, init |-> TRUE, cid |-> cid,
                           type |-> type, ver |-> ver,
                           scalar |-> IF type = "YAML_SCALAR_EVENT"
                                        THEN [value |-> st.value,
                                              length |-> st.length]
                                        ELSE NoScalar],
                !.cs[cid].owner = "slot",
                !.tr = Append(st.tr, Step("yaml_event_initialize", cid))]

\* the slot a call's result lands in: the object found by get_event, or a
\* new object when push_event made one
ResultSlot(st) == IF st.obj = "new" THEN FreeSlot(st.ev) ELSE st.obj

\* run_constructor setting init before it looks at the engine's answer
run_constructor_init_first(c, args, ok, ub) ==
  CHOOSE out \in
    {IF st.err # "" THEN st
     ELSE IF ~ok
       THEN IF st.obj = "new"
              THEN Raise(st, InitializeError(c))
              ELSE Raise([st EXCEPT !.ev[st.obj].init = TRUE],
                         InitializeError(c))
       ELSE initialize_event(st, ResultSlot(st), CtorType(c), st.ver)
       : st \in {before_initialize(c, args, ub)}} : TRUE

\* the whole constructor: the argument scan, then the engine's initializer
\* (ok: whether it succeeds), then obj->init = TRUE
run_constructor(c, args, ok, ub) ==
  CHOOSE out \in
    {IF st.err # "" THEN st
     ELSE IF ~ok
       THEN Raise([st EXCEPT !.tr = Append(st.tr, Step("yaml_event_initialize", 0))],
                  InitializeError(c))
       ELSE initialize_event(st, ResultSlot(st), CtorType(c), st.ver)
       : st \in {before_initialize(c, args, ub)}} : TRUE

\* Y_yaml_<c>: one of the ten constructors on the argument list args.
Constructor(c, args, ok, ub) ==
  \E before \in {before_initialize(c, args, ub)},
     targets \in {PositionalSlots(args)} :
     /\ ~Crashed
     /\ \A i \in 1..Len(targets) : events[targets[i]].alloc
     /\ ok => FreshIds(contents) # {}
     /\ (before.obj = "new" /\ ok) => FreeSlots(events) # {}
     /\ \E st \in {run_constructor(c, args, ok, ub)} :
          /\ events' = st.ev
          /\ contents' = st.cs
          /\ trace' = st.tr
          /\ err' = st.err
     /\ IF c \in KeywordCtors /\ ~initialized
          THEN /\ runs < MaxRuns
               /\ initialized' = TRUE
               /\ keyword_index' = initialize(keyword_index)
               /\ runs' = runs + 1
          ELSE UNCHANGED <<initialized, keyword_index, runs>>
     /\ last' = Call(c, targets, "", Len(targets) > 0 /\ before.obj = targets[1],
                     NoField)
     /\ result' = "none"
     /\ UNCHANGED <<parsers, emitters, text>>

(***************************************************************************)
(* Parsers and emitters.                                                   *)
(***************************************************************************)
parsing_t == {"ANY", "SCAN", "PARSE", "LOAD"}

NoParser == [alloc |-> FALSE, init |-> FALSE, parsing |-> "ANY", input |-> "NULL"]
\* push_parser: init = FALSE, parsing = ANY
push_parser == [NoParser EXCEPT !.alloc = TRUE]

NoEmitter == [alloc |-> FALSE, init |-> FALSE, open |-> FALSE, output |-> "NULL"]
\* push_emitter: init = FALSE, open = FALSE
push_emitter == [NoEmitter EXCEPT !.alloc = TRUE]

\* parse_mode that takes over a parser of any mode
parse_mode_any(parsing) == [parsing |-> "PARSE", err |-> ""]

\* the mode check of Y_yaml_parse (lines 736-745): the new mode and the error
parse_mode(parsing) ==
  IF parsing = "ANY" THEN [parsing |-> "PARSE", err |-> ""]
  ELSE IF parsing # "PARSE"
    THEN [parsing |-> parsing, err |-> "not an event-based parser"]
  ELSE [parsing |-> parsing, err |-> ""]

\* parse_destination that re-uses the event without deleting its content
parse_destination_keep(st, dst) ==
  IF dst # "none" THEN [st EXCEPT !.obj = dst] ELSE [st EXCEPT !.obj = "new"]

\* the destination of Y_yaml_parse (lines 746-756): the given event, its
\* content deleted when it is initialized, or a new event
parse_destination(st, dst) ==
  IF dst # "none"
    THEN [get_event_fresh(st, dst) EXCEPT !.obj = dst]
    ELSE [st EXCEPT !.obj = "new"]

\* what yaml_parser_parse can answer: a failure, or an event of any kind; a
\* DOCUMENT-START event has a version directive or none
VersionOneOne == [set |-> TRUE, major |-> <<1, 0>>, minor |-> <<1, 0>>]
ParseOutcomes ==
  {[ok |-> FALSE, type |-> "YAML_NO_EVENT", ver |-> NoVersion]}
    \cup {[ok |-> TRUE, type |-> ty, ver |-> NoVersion] : ty \in AllEventTypes}
    \cup {[ok |-> TRUE, type |-> "YAML_DOCUMENT_START_EVENT", ver |-> VersionOneOne]}

\* parse_event setting init before it looks at the engine's answer
parse_event_init_first(st, out) ==
  CHOOSE done \in
    {IF ~out.ok
       THEN IF called.obj = "new" THEN Raise(called, "parser error")
            ELSE Raise([called EXCEPT !.ev[called.obj].init = TRUE],
                       "parser error")
     ELSE initialize_event(called, ResultSlot(called), out.type, out.ver)
       : called \in {[st EXCEPT !.tr = Append(st.tr,
                                   Step("yaml_parser_parse", 0))]}} : TRUE

\* yaml_parser_parse(&src->parser, &dst->event) and what follows (757-760)
parse_event(st, out) ==
  CHOOSE done \in
    {IF ~out.ok THEN Raise(called, "parser error")
     ELSE initialize_event(called, ResultSlot(called), out.type, out.ver)
       : called \in {[st EXCEPT !.tr = Append(st.tr,
                                   Step("yaml_parser_parse", 0))]}} : TRUE

run_parse(p, dst, out) ==
  LET mode == parse_mode(parsers[p].parsing)
      st0 == CallState(events, contents, "continue")
  IN IF mode.err # "" THEN Raise(st0, mode.err)
     ELSE CHOOSE done \in {parse_event(target, out)
            : target \in {parse_destination(st0, dst)}} : TRUE

\* Y_yaml_parse(parser [, event])
Y_yaml_parse(p, dst, out) ==
  /\ ~Crashed
  /\ parsers[p].alloc
  /\ dst # "none" => events[dst].alloc
  /\ out.ok => FreshIds(contents) # {}
  /\ (dst = "none" /\ out.ok) => FreeSlots(events) # {}
  /\ parsers' = [parsers EXCEPT ![p].parsing = parse_mode(@).parsing]
  /\ \E st \in {run_parse(p, dst, out)} :
       /\ events' = st.ev
       /\ contents' = st.cs
       /\ trace' = st.tr
       /\ err' = st.err
       /\ last' = Call("yaml_parse", IF dst = "none" THEN <<>> ELSE <<dst>>, p,
                       dst # "none" /\ st.obj = dst, NoField)
  /\ result' = "none"
  /\ UNCHANGED <<emitters, initialized, keyword_index, runs, text>>

\* emit_one clearing init only after the engine accepted the event
emit_one_clear_on_success(st, s, fail) ==
  IF ~st.ev[s].init THEN Raise(st, "unintialized event")
  ELSE
    LET cid == st.ev[s].cid
        handed == [st EXCEPT !.cs[cid].owner = "engine",
                             !.cs[cid].emitted = @ + 1,
                             !.tr = Append(st.tr, Step("yaml_emitter_emit", cid))]
    IN IF fail THEN Raise(handed, "emitter error")
       ELSE [handed EXCEPT !.ev[s].init = FALSE,
                           !.ev[s].type = "YAML_NO_EVENT",
                           !.ev[s].ver = NoVersion,
                           !.ev[s].scalar = NoScalar]

\* emit_one without the test of init: any event is handed to the engine
emit_one_unchecked(st, s, fail) ==
  LET cid == st.ev[s].cid
      handed == [st EXCEPT !.ev[s].init = FALSE,
                           !.tr = Append(st.tr, Step("yaml_emitter_emit", cid))]
  IN IF fail THEN Raise(handed, "emitter error") ELSE handed

\* one turn of the loop of Y_yaml_emit (lines 780-789) on event s; fail tells
\* whether yaml_emitter_emit fails on it
emit_one(st, s, fail) ==
  IF ~st.ev[s].init THEN Raise(st, "unintialized event")
  ELSE
    LET cid == st.ev[s].cid
        handed == [st EXCEPT !.ev[s].init = FALSE,
                             !.ev[s].type = "YAML_NO_EVENT",
                             !.ev[s].ver = NoVersion,
                             !.ev[s].scalar = NoScalar,
                             !.cs[cid].owner = "engine",
                             !.cs[cid].emitted = @ + 1,
                             !.tr = Append(st.tr, Step("yaml_emitter_emit", cid))]
    IN IF fail THEN Raise(handed, "emitter error") ELSE handed

\* emit_loop walking the stack upwards: the last event of the call first
RECURSIVE emit_loop_reversed(_, _, _, _)
emit_loop_reversed(st, args, n, failAt) ==
  IF st.err # "" \/ Len(args) = 0 THEN st
  ELSE CHOOSE out \in {emit_loop_reversed(next, SubSeq(args, 1, Len(args) - 1),
                                          n + 1, failAt)
         : next \in {emit_one(st, args[Len(args)], n = failAt)}} : TRUE

\* while (iarg > 0) { ... }: the events in the caller's order; the engine
\* fails on its failAt-th call of this loop (0: on none)
RECURSIVE emit_loop(_, _, _, _)
emit_loop(st, args, n, failAt) ==
  IF st.err # "" \/ Len(args) = 0 THEN st
  ELSE CHOOSE out \in {emit_loop(next, Tail(args), n + 1, failAt)
         : next \in {emit_one(st, Head(args), n = failAt)}} : TRUE

\* Y_yaml_emit(emitter, event, ...)
Y_yaml_emit(m, args, failAt) ==
  /\ ~Crashed
  /\ emitters[m].alloc
  /\ \A i \in 1..Len(args) : events[args[i]].alloc
  /\ \E st \in {emit_loop(CallState(events, contents, "continue"), args, 1,
                           failAt)} :
       /\ events' = st.ev
       /\ contents' = st.cs
       /\ trace' = st.tr
       /\ err' = st.err
  /\ last' = Call("yaml_emit", args, m, FALSE, NoField)
  /\ result' = "none"
  /\ UNCHANGED <<parsers, emitters, initialized, keyword_index, runs, text>>


(***************************************************************************)
(* on_free callbacks and Y_yaml_open.                                      *)
(***************************************************************************)
\* free_parser (lines 518-527): the steps it makes on parser record obj
free_parser(obj) ==
  (IF obj.init THEN <<Step("yaml_parser_delete", 0)>> ELSE <<>>)
    \o (IF obj.input # "NULL" /\ obj.input # "stdin"
          THEN <<Step("fclose", 0)>> ELSE <<>>)

\* free_emitter closing every output it has, its own or not
free_emitter_close_any(obj) ==
  (IF obj.init THEN <<Step("yaml_emitter_delete", 0)>> ELSE <<>>)
    \o (IF obj.output # "NULL" THEN <<Step("fclose", 0)>> ELSE <<>>)

\* free_emitter (lines 589-598)
free_emitter(obj) ==
  (IF obj.init THEN <<Step("yaml_emitter_delete", 0)>> ELSE <<>>)
    \o (IF obj.output # "NULL" /\ obj.open
          THEN <<Step("fclose", 0)>> ELSE <<>>)

\* the interpreter drops its last reference to event s: on_free, then the
\* object is gone
ReleaseEvent(s) ==
  /\ ~Crashed
  /\ events[s].alloc
  /\ \E st \in {free_event(CallState(events, contents, "continue"), s)} :
       /\ events' = [st.ev EXCEPT ![s] = NoEvent]
       /\ contents' = st.cs
       /\ trace' = st.tr
  /\ err' = ""
  /\ last' = Call("free_event", <<s>>, "", FALSE, NoField)
  /\ result' = "none"
  /\ UNCHANGED <<parsers, emitters, initialized, keyword_index, runs, text>>

ReleaseParser(p) ==
  /\ ~Crashed
  /\ parsers[p].alloc
  /\ parsers' = [parsers EXCEPT ![p] = NoParser]
  /\ trace' = free_parser(parsers[p])
  /\ err' = ""
  /\ last' = Call("free_parser", <<>>, p, FALSE, NoField)
  /\ result' = "none"
  /\ UNCHANGED <<events, contents, emitters, initialized, keyword_index, runs, text>>

ReleaseEmitter(m) ==
  /\ ~Crashed
  /\ emitters[m].alloc
  /\ emitters' = [emitters EXCEPT ![m] = NoEmitter]
  /\ trace' = free_emitter(emitters[m])
  /\ err' = ""
  /\ last' = Call("free_emitter", <<>>, m, FALSE, NoField)
  /\ result' = "none"
  /\ UNCHANGED <<events, contents, parsers, initialized, keyword_index, runs, text>>

FreeParsers == {p \in ParserIds : ~parsers[p].alloc}
FreeEmitters == {m \in EmitterIds : ~emitters[m].alloc}

\* the parser branch of Y_yaml_open (lines 670-681): the object made, the
\* error raised and the steps made; an object on the stack when y_error is
\* raised is dropped by the interpreter, which runs free_parser on it
open_parser(fopen_ok, init_ok) ==
  LET opened == [push_parser EXCEPT !.input = IF fopen_ok THEN "file" ELSE "NULL"]
      ready == [opened EXCEPT !.init = TRUE]
  IN IF ~fopen_ok
       THEN [obj |-> NoParser, err |-> "failed to open file for reading",
             tr |-> <<Step("fopen", 0)>> \o free_parser(opened)]
     ELSE IF ~init_ok
       THEN [obj |-> NoParser, err |-> "failed to initialize parser",
             tr |-> <<Step("fopen", 0), Step("yaml_parser_initialize", 0)>>
                      \o free_parser(opened)]
     ELSE [obj |-> ready, err |-> "",
           tr |-> <<Step("fopen", 0), Step("yaml_parser_initialize", 0)>>]

\* the emitter branch of Y_yaml_open (lines 682-699)
open_emitter(filename, fopen_ok, init_ok) ==
  LET std == filename.null \/ Len(filename.s) = 0
      opened == IF std
                  THEN [push_emitter EXCEPT !.output = "stdout", !.open = FALSE]
                  ELSE [push_emitter EXCEPT !.output = "file", !.open = TRUE]
      steps == IF std THEN <<>> ELSE <<Step("fopen", 0)>>
      ready == [opened EXCEPT !.init = TRUE]
  IN IF ~std /\ ~fopen_ok
       THEN [obj |-> NoEmitter, err |-> "failed to open file for writing",
             tr |-> steps \o free_emitter([push_emitter EXCEPT !.output = "NULL"])]
     ELSE IF ~init_ok
       THEN [obj |-> NoEmitter, err |-> "failed to initialize emitter",
             tr |-> steps \o <<Step("yaml_emitter_initialize", 0)>>
                      \o free_emitter(opened)]
     ELSE [obj |-> ready, err |-> "",
           tr |-> steps \o <<Step("yaml_emitter_initialize", 0)>>]

\* the access modes a caller may give; argc = 1 gives mode = "r"
Modes == {<<"r">>, <<"w">>, <<"a">>, <<"r", "w">>, <<>>}
Filenames == {CStr(<<>>), CStr(<<"f">>)}

\* which object the mode selects (lines 670, 682, 700)
open_branch(mode) ==
  IF CharAt(mode, 1) = "r" /\ CharAt(mode, 2) = NUL THEN "parser"
  ELSE IF (CharAt(mode, 1) = "r" \/ CharAt(mode, 1) = "a") /\ CharAt(mode, 2) = NUL
    THEN "emitter"
  ELSE "invalid"

\* Y_yaml_open(filename [, mode])
Y_yaml_open(argc, filename, given, fopen_ok, init_ok) ==
  LET mode == IF argc >= 2 THEN given ELSE <<"r">>
      branch == open_branch(mode)
      p == CHOOSE q \in FreeParsers : TRUE
      m == CHOOSE q \in FreeEmitters : TRUE
      po == open_parser(fopen_ok, init_ok)
      eo == open_emitter(filename, fopen_ok, init_ok)
  IN /\ ~Crashed
     /\ branch = "parser" => FreeParsers # {}
     /\ branch = "emitter" => FreeEmitters # {}
     /\ parsers' = IF branch = "parser" THEN [parsers EXCEPT ![p] = po.obj]
                   ELSE parsers
     /\ emitters' = IF branch = "emitter" THEN [emitters EXCEPT ![m] = eo.obj]
                    ELSE emitters
     /\ err' = CASE branch = "parser" -> po.err
                 [] branch = "emitter" -> eo.err
                 [] OTHER -> "invalid file access mode"
     /\ trace' = CASE branch = "parser" -> po.tr
                   [] branch = "emitter" -> eo.tr
                   [] OTHER -> <<>>
     /\ last' = Call("yaml_open", <<>>,
                     CASE branch = "parser" -> p [] branch = "emitter" -> m
                       [] OTHER -> "", FALSE, NoField)
     /\ result' = "none"
     /\ UNCHANGED <<events, contents, initialized, keyword_index, runs, text>>

(***************************************************************************)
(* on_extract of an event: obj.name                                        *)
(***************************************************************************)
\* A member name is pre \o suf, pre being the prefix strncmp finds ("start",
\* "end") or "" when the name begins with neither.
Field(pre, suf) == [pre |-> pre, suf |-> suf]
MarkMembers == {"_index", "_line", "_column"}
Members ==
  {Field("", n) : n \in {"type", "encoding", "implicit", "version", "anchor",
                         "tag", "value", "length", "plain_implicit",
                         "quoted_implicit", "style", "bogus"}}
    \cup {Field(pre, suf) : pre \in {"start", "end"},
                            suf \in MarkMembers \cup {"", "_bogus"}}

\* the members the switch of extract_event extracts for each event kind
KindMembers(type) ==
  CASE type = "YAML_STREAM_START_EVENT"   -> {"encoding"}
    [] type = "YAML_DOCUMENT_START_EVENT" -> {"implicit", "version"}
    [] type = "YAML_DOCUMENT_END_EVENT"   -> {"implicit"}
    [] type = "YAML_ALIAS_EVENT"          -> {"anchor"}
    [] type = "YAML_SCALAR_EVENT"         -> {"anchor", "tag", "value", "length",
                                              "plain_implicit", "quoted_implicit",
                                              "style"}
    [] type = "YAML_SEQUENCE_START_EVENT" -> {"anchor", "tag", "implicit", "style"}
    [] type = "YAML_MAPPING_START_EVENT"  -> {"anchor", "tag", "implicit", "style"}
    [] OTHER                              -> {}

\* extract_mark (lines 350-362)
extract_mark(suf) ==
  IF suf \in MarkMembers THEN [result |-> "value", err |-> ""]
  ELSE [result |-> "none", err |-> "unknown member"]

\* get_event_type (lines 344-348)
get_event_type(obj) == IF obj.init THEN obj.type ELSE "YAML_NO_EVENT"

\* extract_event (lines 376-460).  Reading version_directive->major through
\* a NULL version_directive is undefined: ub chooses what happens.
extract_event(obj, name, ub) ==
  IF name = Field("", "type") THEN [result |-> "value", err |-> ""]
  ELSE IF ~obj.init THEN [result |-> "none", err |-> "uninitialized YAML event"]
  ELSE IF name.pre = "" /\ name.suf \in KindMembers(obj.type)
    THEN IF obj.type = "YAML_DOCUMENT_START_EVENT" /\ name.suf = "version"
            /\ ~obj.ver.set
           THEN IF ub = "crash" THEN [result |-> "none", err |-> "SIGSEGV"]
                ELSE [result |-> "indeterminate", err |-> ""]
           ELSE [result |-> "value", err |-> ""]
  ELSE IF name.pre \in {"start", "end"} THEN extract_mark(name.suf)
  ELSE [result |-> "none", err |-> "unknown YAML event member"]

ExtractEvent(s, name, ub) ==
  /\ ~Crashed
  /\ events[s].alloc
  /\ \E r \in {extract_event(events[s], name, ub)} :
       /\ result' = r.result
       /\ err' = r.err
  /\ trace' = <<>>
  /\ last' = Call("extract_event", <<s>>, "", FALSE, name)
  /\ UNCHANGED <<events, contents, parsers, emitters, initialized, keyword_index, runs, text>>

\* Y___yaml_init__ (lines 643-647)
Y___yaml_init__ ==
  /\ ~Crashed
  /\ runs < MaxRuns
  /\ initialized' = TRUE
  /\ keyword_index' = initialize(keyword_index)
  /\ runs' = runs + 1
  /\ err' = ""
  /\ trace' = <<>>
  /\ last' = Call("__yaml_init__", <<>>, "", FALSE, NoField)
  /\ result' = "none"
  /\ UNCHANGED <<events, contents, parsers, emitters, text>>


(***************************************************************************)
(* Inputs the actions draw from.                                           *)
(***************************************************************************)
Str(s) == Val("str", s)
KeywordInputs ==
  {Kw("implicit", Val("int", <<>>)),
   Kw("version", Str(<<"1", ".", "1">>)),
   Kw("version", Str(<<"1", ".", "1", ".", "2">>)),
   Kw("value", Val("other", <<>>)),
   Kw("value", Val("hugestr", <<>>)),
   Kw("bogus", Val("int", <<>>))}
\* argument lists of up to MaxArgs arguments on event e
ArgItems(e) == {Pos(e), PosNil} \cup KeywordInputs
ArgLists(e) == UNION {[1..n -> ArgItems(e)] : n \in 0..MaxArgs}
\* argument lists that only name the target: none, nil, or an event
TargetArgs == {<<>>, <<PosNil>>} \cup {<<Pos(s)>> : s \in Slots}
EmitArgs == UNION {[1..n -> Slots] : n \in 0..MaxEmitArgs}
\* the answers of yaml_parser_parse without the kinds of event
PlainOutcomes == {out \in ParseOutcomes : out.type = "YAML_SCALAR_EVENT" \/ ~out.ok}

Init ==
  /\ events = [s \in Slots |-> NoEvent]
  /\ contents = [c \in ContentIds |-> NoContent]
  /\ parsers = [p \in ParserIds |-> NoParser]
  /\ emitters = [m \in EmitterIds |-> NoEmitter]
  /\ initialized = FALSE
  /\ keyword_index = [k \in Keywords |-> -1]
  /\ runs = 0
  /\ last = Call("none", <<>>, "", FALSE, NoField)
  /\ err = ""
  /\ trace = <<>>
  /\ result = "none"
  /\ text = <<>>

(***************************************************************************)
(* The calls of the interpreter, and Spec: it opens files, builds events   *)
(* of two kinds, emits them and releases them, in any order.               *)
(***************************************************************************)
Open == \E argc \in {1, 2}, mode \in Modes, fopen_ok \in BOOLEAN, init_ok \in BOOLEAN :
          Y_yaml_open(argc, CStr(<<"f">>), mode, fopen_ok, init_ok)
Construct == \E c \in Ctors, args \in TargetArgs, ok \in BOOLEAN :
               Constructor(c, args, ok, "continue")
\* one constructor with an argument loop, and one without
SomeCtors == {"scalar_event", "stream_end_event"}
ConstructSome == \E c \in SomeCtors, args \in TargetArgs, ok \in BOOLEAN :
                   Constructor(c, args, ok, "continue")
Parse == \E p \in ParserIds, dst \in Slots \cup {"none"}, out \in PlainOutcomes :
           Y_yaml_parse(p, dst, out)
Emit == \E m \in EmitterIds, args \in EmitArgs, failAt \in 0..MaxEmitArgs :
          failAt <= Len(args) /\ Y_yaml_emit(m, args, failAt)
FreeEvent == \E s \in Slots : ReleaseEvent(s)
FreeParser == \E p \in ParserIds : ReleaseParser(p)
FreeEmitter == \E m \in EmitterIds : ReleaseEmitter(m)

Next ==
  \/ Open
  \/ ConstructSome
  \/ Emit
  \/ FreeEvent
  \/ FreeEmitter

Spec == Init /\ [][Next]_vars

(***************************************************************************)
(* SpecParse: the interpreter opens files, builds events of two kinds,     *)
(* parses into them and releases them.                                     *)
(***************************************************************************)
NextParse ==
  \/ Open
  \/ ConstructSome
  \/ Parse
  \/ FreeEvent
  \/ FreeParser

SpecParse == Init /\ [][NextParse]_vars

(***************************************************************************)
(* SpecLife: with a parser and an emitter open, the interpreter calls the  *)
(* ten constructors, parses, emits and releases events in any order.       *)
(***************************************************************************)
InitLife ==
  /\ events = [s \in Slots |-> NoEvent]
  /\ contents = [c \in ContentIds |-> NoContent]
  /\ parsers = [p \in ParserIds |-> open_parser(TRUE, TRUE).obj]
  /\ emitters = [m \in EmitterIds |-> open_emitter(CStr(<<"f">>), TRUE, TRUE).obj]
  /\ initialized = FALSE
  /\ keyword_index = [k \in Keywords |-> -1]
  /\ runs = 0
  /\ last = Call("none", <<>>, "", FALSE, NoField)
  /\ err = ""
  /\ trace = <<>>
  /\ result = "none"
  /\ text = <<>>

NextLife ==
  \/ Construct
  \/ Parse
  \/ Emit
  \/ FreeEvent

SpecLife == InitLife /\ [][NextLife]_vars

(***************************************************************************)
(* Claims checked under Spec, SpecParse and SpecLife.                      *)
(***************************************************************************)
IsEmit == last'.op = "yaml_emit"
IsParse == last'.op = "yaml_parse"
IsConstructor == last'.op \in Ctors
Emitted(i) == Step("yaml_emitter_emit", events[last'.slots[i]].cid)

\* C1: ownership transfer on emit.  Every event that an emit call hands to
\* the engine is uninitialized when the call returns, whether the engine
\* accepted it or failed on it (an initialized first event is always handed);
\* no content is handed to the engine twice; and an emit whose event is
\* uninitialized fails with the uninitialized-event error without calling the
\* engine.
C1_OwnershipTransfer ==
  [][/\ \A c \in ContentIds : contents'[c].emitted <= 1
     /\ IsEmit =>
          /\ \A i \in 1..Len(trace') :
               /\ trace'[i] = Emitted(i)
               /\ ~events'[last'.slots[i]].init
          /\ (Len(last'.slots) > 0 /\ events[last'.slots[1]].init) =>
               /\ Len(trace') >= 1
               /\ contents'[events[last'.slots[1]].cid].owner = "engine"
          /\ (Len(last'.slots) > 0 /\ ~events[last'.slots[1]].init) =>
               /\ err' = "unintialized event"
               /\ trace' = <<>>
               /\ contents' = contents
               /\ events' = events]_vars

\* C1 witness: an emit of an event that an earlier emit handed to the engine
\* has failed with the uninitialized-event error, the engine not called.
C1_Witness ==
  /\ last.op = "yaml_emit"
  /\ err = "unintialized event"
  /\ trace = <<>>
  /\ Len(last.slots) > 0
  /\ events[last.slots[1]].cid \in ContentIds
  /\ contents[events[last.slots[1]].cid].owner = "engine"
  /\ contents[events[last.slots[1]].cid].emitted = 1

\* the contents held by initialized events, with their holders
Holders(c) == {s \in Slots : events[s].alloc /\ events[s].init /\ events[s].cid = c}
NoDoubleRelease ==
  \A c \in ContentIds : contents[c].deleted + contents[c].emitted <= 1
NoLeak ==
  \A c \in ContentIds : contents[c].owner = "slot" => Cardinality(Holders(c)) = 1
NoDanglingContent ==
  \A s \in Slots :
    /\ (events[s].alloc /\ ~events[s].init /\ events[s].cid # 0) =>
         contents[events[s].cid].owner \in {"deleted", "engine"}
    /\ (events[s].alloc /\ events[s].init) =>
         /\ events[s].cid \in ContentIds
         /\ contents[events[s].cid].owner = "slot"

\* C3: reinitialization safety.  A constructor run on a slot that holds an
\* initialized event deletes the prior content exactly once and, on success,
\* leaves the slot initialized with a content built by this call; whatever
\* the sequence of constructor, parse, emit and release calls, no content is
\* released twice, every content not released is held by exactly one
\* initialized slot, and an uninitialized slot holds no unreleased content.
C3_ReinitializationSafety ==
  [][/\ NoDoubleRelease'
     /\ NoLeak'
     /\ NoDanglingContent'
     /\ (IsConstructor /\ last'.reached /\ events[last'.slots[1]].init) =>
          LET s == last'.slots[1]
              old == events[s].cid
          IN /\ contents'[old].owner = "deleted"
             /\ contents'[old].deleted = 1
             /\ trace'[1] = Step("yaml_event_delete", old)
             /\ err' = "" =>
                  /\ events'[s].init
                  /\ events'[s].cid # old
                  /\ contents[events'[s].cid].owner = "unborn"
                  /\ events'[s].type = CtorType(last'.op)
             /\ err' # "" => ~events'[s].init]_vars

\* C3 witness: a constructor has succeeded on a slot that held an initialized
\* event: the old content was deleted, then the new one built.
C3_Witness ==
  /\ last.op \in Ctors
  /\ last.reached
  /\ err = ""
  /\ Len(trace) = 2
  /\ trace[1].what = "yaml_event_delete"
  /\ trace[2] = Step("yaml_event_initialize", events[last.slots[1]].cid)
  /\ contents[trace[1].cid].deleted = 1

\* C4: a successful parse call replaces the content of the destination.  With
\* a re-used event that is initialized, the prior content is deleted before
\* the engine is called and the event is initialized afterwards with the new
\* content; with no event given, a new event is made and initialized.
C4_ParseReplaces ==
  [][(IsParse /\ err' = "") =>
       IF Len(last'.slots) = 1
         THEN LET s == last'.slots[1]
                  new == events'[s].cid
              IN /\ events'[s].init
                 /\ contents[new].owner = "unborn"
                 /\ contents'[new].owner = "slot"
                 /\ IF events[s].init
                      THEN /\ trace' = <<Step("yaml_event_delete", events[s].cid),
                                         Step("yaml_parser_parse", 0),
                                         Step("yaml_event_initialize", new)>>
                           /\ contents'[events[s].cid].owner = "deleted"
                      ELSE trace' = <<Step("yaml_parser_parse", 0),
                                      Step("yaml_event_initialize", new)>>
         ELSE \E s \in Slots :
                /\ ~events[s].alloc
                /\ events'[s].alloc
                /\ events'[s].init
                /\ contents[events'[s].cid].owner = "unborn"
                /\ trace' = <<Step("yaml_parser_parse", 0),
                              Step("yaml_event_initialize", events'[s].cid)>>]_vars

\* C4 witness: a parse into an initialized event has succeeded.
C4_Witness ==
  /\ last.op = "yaml_parse"
  /\ err = ""
  /\ Len(last.slots) = 1
  /\ Len(trace) = 3
  /\ trace[1].what = "yaml_event_delete"
  /\ events[last.slots[1]].init

InitMode ==
  /\ events = [s \in Slots |-> NoEvent]
  /\ contents = [c \in ContentIds |-> NoContent]
  /\ \E mode \in parsing_t :
       parsers = [p \in ParserIds |->
                    [alloc |-> TRUE, init |-> TRUE, parsing |-> mode,
                     input |-> "file"]]
  /\ emitters = [m \in EmitterIds |-> NoEmitter]
  /\ initialized = FALSE
  /\ keyword_index = [k \in Keywords |-> -1]
  /\ runs = 0
  /\ last = Call("none", <<>>, "", FALSE, NoField)
  /\ err = ""
  /\ trace = <<>>
  /\ result = "none"
  /\ text = <<>>

NextMode ==
  \/ Open
  \/ ConstructSome
  \/ Parse
  \/ FreeEvent
  \/ FreeParser

SpecMode == InitMode /\ [][NextMode]_vars

IsOpen == last'.op = "yaml_open"

\* C2: mode exclusivity.  A parser made by yaml_open has mode ANY; a parse
\* call on a parser of mode ANY sets the mode to PARSE; a mode other than ANY
\* never changes while the parser lives; and a parse call on a parser of mode
\* SCAN or LOAD fails with "not an event-based parser" without any call of
\* the engine and without touching any event.
C2_ModeExclusivity ==
  [][/\ (IsOpen /\ err' = "" /\ last'.obj \in ParserIds) =>
          parsers'[last'.obj].parsing = "ANY"
     /\ \A p \in ParserIds :
          (parsers[p].alloc /\ parsers'[p].alloc /\ parsers[p].parsing # "ANY") =>
            parsers'[p].parsing = parsers[p].parsing
     /\ IsParse =>
          LET p == last'.obj
              mode == parsers[p].parsing
          IN /\ mode = "ANY" => parsers'[p].parsing = "PARSE"
             /\ mode \in {"ANY", "PARSE"} =>
                  /\ err' \in {"", "parser error"}
                  /\ \E i \in 1..Len(trace') : trace'[i].what = "yaml_parser_parse"
             /\ mode \in {"SCAN", "LOAD"} =>
                  /\ err' = "not an event-based parser"
                  /\ trace' = <<>>
                  /\ events' = events
                  /\ contents' = contents]_vars

\* C2 witness: a parse call on a parser of mode SCAN or LOAD that was given
\* an initialized event has failed with the mode error, the event kept.
C2_Witness ==
  /\ last.op = "yaml_parse"
  /\ err = "not an event-based parser"
  /\ parsers[last.obj].parsing \in {"SCAN", "LOAD"}
  /\ Len(last.slots) = 1
  /\ events[last.slots[1]].init

(***************************************************************************)
(* SpecCtor: the constructors on every argument list of up to MaxArgs      *)
(* arguments that names event e1, keywords included.                       *)
(***************************************************************************)
\* the argument lists that name e1, and the one that makes a new event
CtorArgs ==
  {<<PosNil>>}
    \cup {args \in ArgLists("e1") : \E i \in 1..Len(args) : args[i] = Pos("e1")}
ConstructArgs == \E c \in Ctors, args \in CtorArgs, ok \in BOOLEAN :
                   Constructor(c, args, ok, "continue")

NextCtor ==
  \/ ConstructArgs
  \/ FreeEvent

SpecCtor == Init /\ [][NextCtor]_vars

\* the errors a constructor raises while it scans its arguments
ValidationErrors ==
  {"unknown keyword", "too many arguments", "bad version number",
   "expecting scalar string argument", "expecting scalar integer argument",
   "value must be a string or a numerical scalar", "integer overflow",
   "expecting exactly one argument", "expecting a yaml_event object"}
EngineErrors == {InitializeError(c) : c \in Ctors}
ConstructorErrors == ValidationErrors \cup EngineErrors
Target == last'.slots[1]

\* C5 as claimed: after a constructor call that raised an error, the event
\* given as target is uninitialized.
C5_Claimed ==
  [][(IsConstructor /\ err' # "" /\ Len(last'.slots) > 0) =>
       ~events'[Target].init]_vars

\* C5 amended: a constructor call that raises an error after it has taken
\* its target (every engine rejection, and every error of an argument that
\* follows the target) leaves the target uninitialized; a call that raises
\* an error before it has taken the target leaves the target as it was; and
\* a failed call makes no new event.
C5_FailedConstruction ==
  [][(IsConstructor /\ err' # "") =>
       /\ err' \in ConstructorErrors
       /\ \A s \in Slots : events'[s].alloc = events[s].alloc
       /\ \A s \in Slots : events'[s].init => (events[s].init /\ events'[s] = events[s])
       /\ (err' = InitializeError(last'.op) /\ Len(last'.slots) > 0) =>
            last'.reached
       /\ Len(last'.slots) > 0 =>
            IF last'.reached
              THEN ~events'[Target].init
              ELSE events'[Target] = events[Target]]_vars

\* C5 witness: the engine has rejected the event of a constructor whose
\* target was initialized: the target's content is deleted and it is
\* uninitialized.
C5_Witness ==
  /\ last.op \in Ctors
  /\ err = InitializeError(last.op)
  /\ last.reached
  /\ Len(trace) = 2
  /\ trace[1].what = "yaml_event_delete"
  /\ ~events[last.slots[1]].init

TwoTo32Plus1 == <<"4", "2", "9", "4", "9", "6", "7", "2", "9", "7">>
TwoTo63 == <<"9", "2", "2", "3", "3", "7", "2", "0", "3", "6", "8", "5", "4",
             "7", "7", "5", "8", "0", "8">>
VersionPieces ==
  {<<"1">>, <<"2">>, <<".">>, <<"a">>, <<" ">>, <<"+">>, TwoTo32Plus1, TwoTo63}

RECURSIVE Join(_)
Join(pieces) ==
  IF Len(pieces) = 0 THEN <<>> ELSE Head(pieces) \o Join(Tail(pieces))

VersionTexts ==
  {Join(ps) : ps \in UNION {[1..n -> VersionPieces] : n \in 0..MaxPieces}}

InitVersion ==
  /\ events = [s \in Slots |-> NoEvent]
  /\ contents = [c \in ContentIds |-> NoContent]
  /\ parsers = [p \in ParserIds |-> NoParser]
  /\ emitters = [m \in EmitterIds |-> NoEmitter]
  /\ initialized = FALSE
  /\ keyword_index = [k \in Keywords |-> -1]
  /\ runs = 0
  /\ last = Call("none", <<>>, "", FALSE, NoField)
  /\ err = ""
  /\ trace = <<>>
  /\ result = "none"
  /\ text \in VersionTexts

\* evt = yaml_document_start_event(version=text), once
BuildVersion ==
  \E ok \in BOOLEAN, ub \in UBOutcomes :
    /\ last.op = "none"
    /\ Constructor("document_start_event", <<Kw("version", Str(text))>>, ok, ub)

NextVersion == BuildVersion

SpecVersion == InitVersion /\ [][NextVersion]_vars

\* digits '.' digits, and the two digit strings
DotAt(s, i) ==
  /\ s[i] = "."
  /\ i > 1
  /\ i < Len(s)
  /\ \A j \in 1..Len(s) : j # i => s[j] \in Digits
WellFormedVersion(s) == \E i \in 1..Len(s) : DotAt(s, i)
DotOf(s) == CHOOSE i \in 1..Len(s) : DotAt(s, i)
MajorText(s) == SubSeq(s, 1, DotOf(s) - 1)
MinorText(s) == SubSeq(s, DotOf(s) + 1, Len(s))

\* the integer a digit string denotes; big when it exceeds 2^31 - 1
RECURSIVE DecimalValue(_, _)
DecimalValue(s, acc) ==
  IF Len(s) = 0 THEN [big |-> FALSE, v |-> acc]
  ELSE LET d == DigitValue(Head(s))
       IN IF acc > 214748364 \/ (acc = 214748364 /\ d > 7)
            THEN [big |-> TRUE, v |-> 0]
            ELSE DecimalValue(Tail(s), 10 * acc + d)
\* an int field holds the integer that the digit string denotes
IntDenotes(limbs, s) ==
  LET n == DecimalValue(s, 0)
  IN /\ ~n.big
     /\ limbs[2] < LimbBase \div 2
     /\ limbs[1] + LimbBase * limbs[2] = n.v

\* C9 as claimed: document_start_event accepts a version text exactly when
\* it is digits, '.', digits; every other text fails with "bad version
\* number"; and the event built from an accepted text has major and minor
\* equal to the two integers of the text.
C9_Claimed ==
  last.op = "document_start_event" =>
    /\ WellFormedVersion(text) =>
         err \in {"", "failed to initialize DOCUMENT-START event"}
    /\ ~WellFormedVersion(text) => err = "bad version number"
    /\ err = "" =>
         \A s \in Slots :
           events[s].init =>
             /\ events[s].ver.set
             /\ IntDenotes(events[s].ver.major, MajorText(text))
             /\ IntDenotes(events[s].ver.minor, MinorText(text))

(***************************************************************************)
(* SpecExtract: obj.name on events of every kind, for every member name.   *)
(***************************************************************************)
ExtractTargets ==
  {<<PosNil>>, <<Kw("version", Str(<<"1", ".", "1">>))>>,
   <<Pos("e1")>>, <<Pos("e1"), Kw("version", Str(<<"1", ".", "1">>))>>}
BuildEvent == \E c \in Ctors, args \in ExtractTargets, ok \in BOOLEAN :
                Constructor(c, args, ok, "continue")
Extract == \E s \in Slots, name \in Members, ub \in UBOutcomes :
             ExtractEvent(s, name, ub)

NextExtract ==
  \/ BuildEvent
  \/ Extract
  \/ FreeEvent

SpecExtract == Init /\ [][NextExtract]_vars

\* the fields the data model gives each kind of event
FieldsOfKind(type) ==
  CASE type = "YAML_STREAM_START_EVENT"   -> {"encoding"}
    [] type = "YAML_DOCUMENT_START_EVENT" -> {"version", "implicit"}
    [] type = "YAML_DOCUMENT_END_EVENT"   -> {"implicit"}
    [] type = "YAML_ALIAS_EVENT"          -> {"anchor"}
    [] type = "YAML_SCALAR_EVENT"         -> {"anchor", "tag", "value", "length",
                                              "plain_implicit", "quoted_implicit",
                                              "style"}
    [] type \in {"YAML_SEQUENCE_START_EVENT", "YAML_MAPPING_START_EVENT"}
                                          -> {"anchor", "tag", "implicit", "style"}
    [] OTHER                              -> {}
Accessible(type, name) ==
  \/ name = Field("", "type")
  \/ name.pre \in {"start", "end"} /\ name.suf \in MarkMembers
  \/ name.pre = "" /\ name.suf \in FieldsOfKind(type)

\* C10 as claimed: on an initialized event, the access of a member returns a
\* value when the name is type, a mark field or a field of the event's kind
\* (version of a DOCUMENT-START event built without a version included), and
\* fails with a contract error otherwise; no access is undefined behaviour.
C10_Claimed ==
  (last.op = "extract_event" /\ events[last.slots[1]].init) =>
    IF Accessible(events[last.slots[1]].type, last.field)
      THEN result = "value" /\ err = ""
      ELSE /\ result = "none"
           /\ err \in {"unknown YAML event member", "unknown member"}


(***************************************************************************)
(* SpecScalar: yaml_scalar_event on one value, drawn at the start, with    *)
(* and without a target event.                                             *)
(***************************************************************************)
\* bound on the halves a finite double is drawn from
MaxHalf == 6

LongMin == <<0, 0, 0, LimbBase \div 2>>
LongMax == <<LimbBase - 1, LimbBase - 1, LimbBase - 1, LimbBase \div 2 - 1>>
MinusOne == <<LimbBase - 1, LimbBase - 1, LimbBase - 1, LimbBase - 1>>
Longs == {LongZero, <<42, 0, 0, 0>>, <<7, 0, 0, 0>>, <<0, 1, 0, 0>>,
          <<0, 0, 1, 0>>, MinusOne, Negate(<<42, 0, 0, 0>>), LongMin, LongMax}
Doubles ==
  {Double("finite", neg, half) : neg \in BOOLEAN, half \in 0..MaxHalf}
    \cup {Double(kind, neg, 0) : kind \in {"nan", "inf"}, neg \in BOOLEAN}
Absent == Val("absent", <<>>)
ScalarValues ==
  {IntVal(l) : l \in Longs}
    \cup {RealVal(d) : d \in Doubles}
    \cup {CplxVal(re, im) : re \in Doubles, im \in Doubles}
    \cup {Str(<<>>), Str(<<"a">>), Str(<<"a", "b", "c">>), Val("str0", <<>>),
          Val("hugestr", <<>>), NilVal, Val("other", <<>>), Absent}

InitScalar ==
  /\ events = [s \in Slots |-> NoEvent]
  /\ contents = [c \in ContentIds |-> NoContent]
  /\ parsers = [p \in ParserIds |-> NoParser]
  /\ emitters = [m \in EmitterIds |-> NoEmitter]
  /\ initialized = FALSE
  /\ keyword_index = [k \in Keywords |-> -1]
  /\ runs = 0
  /\ last = Call("none", <<>>, "", FALSE, NoField)
  /\ err = ""
  /\ trace = <<>>
  /\ result = "none"
  /\ text \in ScalarValues

\* the value keyword of the call, when the caller writes one
ValueArgs == IF text = Absent THEN <<>> ELSE <<Kw("value", text)>>
BuildScalar == \E target \in {<<>>, <<PosNil>>, <<Pos("e1")>>}, ok \in BOOLEAN :
                 Constructor("scalar_event", target \o ValueArgs, ok, "continue")

NextScalar ==
  \/ BuildScalar
  \/ FreeEvent

SpecScalar == InitScalar /\ [][NextScalar]_vars

\* the text of a finite double with no fraction and of an integer, for the
\* examples of the claim
FortyTwo == <<42, 0, 0, 0>>
Three == Double("finite", FALSE, 6)
MinusTwo == Double("finite", TRUE, 4)
Built == last'.op = "scalar_event" /\ err' = ""
\* a + b on 64 bits
LongAdd(a, b) ==
  LET s0 == a[1] + b[1]
      s1 == a[2] + b[2] + (s0 \div LimbBase)
      s2 == a[3] + b[3] + (s1 \div LimbBase)
      s3 == a[4] + b[4] + (s2 \div LimbBase)
  IN <<s0 % LimbBase, s1 % LimbBase, s2 % LimbBase, s3 % LimbBase>>
\* s is the decimal text of the long val: an optional '-', then digits with
\* no leading zero, denoting its magnitude
IntDenotesText(val, s) ==
  LET neg == LongSignBit(val)
      digits == IF neg THEN Tail(s) ELSE s
      r == DigitLoop(digits, LongZero, FALSE)
  IN /\ Len(s) > 0
     /\ neg => s[1] = "-"
     /\ Len(digits) > 0
     /\ r.rest = <<>>
     /\ Len(digits) > 1 => digits[1] # "0"
     /\ IF neg THEN LongAdd(r.value, val) = LongZero ELSE r.value = val
Stored == events'[IF Len(last'.slots) > 0 THEN last'.slots[1]
                  ELSE CHOOSE s \in Slots : events'[s] # events[s]].scalar

\* C11: a SCALAR event built from an integer stores its decimal text (42
\* gives "42", length 2); built from a complex value it stores
\* "<real> + <imag>im" when the imaginary part is non-negative and
\* "<real> - <|imag|>im" when it is negative ((3, -2) gives "3 - 2im"); the
\* stored length is the byte length of the stored text, and an empty or
\* absent value gives length 0.
C11_ScalarText ==
  [][Built =>
       /\ Stored.length = IF Stored.value.null THEN 0 ELSE Len(Stored.value.s)
       /\ text = IntVal(FortyTwo) =>
            Stored = [value |-> CStr(<<"4", "2">>), length |-> 2]
       /\ text.k = "int" =>
            /\ ~Stored.value.null
            /\ IntDenotesText(text.l, Stored.value.s)
       /\ text = CplxVal(Three, MinusTwo) =>
            Stored.value = CStr(<<"3", " ", "-", " ", "2", "i", "m">>)
       /\ (text.k = "cplx" /\ text.z[2].kind # "nan") =>
            Stored.value =
              CStr(sprintf_g(text.z[1])
                     \o (IF text.z[2].neg /\ text.z[2] # Double("finite", TRUE, 0)
                           THEN <<" ", "-", " ">> ELSE <<" ", "+", " ">>)
                     \o sprintf_g(fabs(text.z[2])) \o <<"i", "m">>)
       /\ text \in {Absent, Str(<<>>), Val("str0", <<>>)} => Stored.length = 0]_vars

C11_Witness ==
  /\ last.op = "scalar_event"
  /\ err = ""
  /\ text = CplxVal(Three, MinusTwo)
  /\ \E s \in Slots :
       /\ events[s].init
       /\ events[s].scalar = [value |-> CStr(<<"3", " ", "-", " ", "2", "i", "m">>),
                              length |-> 7]

(***************************************************************************)
(* SpecFiles: files are opened under any name and mode, used and released. *)
(***************************************************************************)
\* fopen cannot open the empty path for reading
OpenFile ==
  \E argc \in {1, 2}, filename \in Filenames, mode \in Modes,
     fopen_ok \in BOOLEAN, init_ok \in BOOLEAN :
       /\ (Len(filename.s) = 0
             /\ open_branch(IF argc >= 2 THEN mode ELSE <<"r">>) = "parser")
            => ~fopen_ok
       /\ Y_yaml_open(argc, filename, mode, fopen_ok, init_ok)

NextFiles ==
  \/ OpenFile
  \/ ConstructSome
  \/ Parse
  \/ Emit
  \/ FreeEvent
  \/ FreeParser
  \/ FreeEmitter

SpecFiles == Init /\ [][NextFiles]_vars

\* how many times a call made the step what
Count(tr, what) == Cardinality({i \in 1..Len(tr) : tr[i].what = what})

\* C12: releasing a parser or an emitter closes its file exactly when the
\* core opened that file itself and deletes the engine state exactly when
\* the engine was initialized; stdout (an emitter opened with an empty path)
\* is never closed; an open that fails part-way closes the file it opened,
\* and only that, and deletes no engine state.
C12_ReleaseOwnership ==
  [][/\ last'.op = "free_parser" =>
          /\ Count(trace', "fclose") = IF parsers[last'.obj].input = "file"
                                        THEN 1 ELSE 0
          /\ Count(trace', "yaml_parser_delete") = 1
          /\ Count(trace', "yaml_emitter_delete") = 0
     /\ last'.op = "free_emitter" =>
          /\ Count(trace', "fclose") = IF emitters[last'.obj].output = "file"
                                        THEN 1 ELSE 0
          /\ Count(trace', "yaml_emitter_delete") = 1
          /\ Count(trace', "yaml_parser_delete") = 0
     /\ last'.op = "yaml_open" =>
          /\ Count(trace', "yaml_parser_delete") = 0
          /\ Count(trace', "yaml_emitter_delete") = 0
          /\ Count(trace', "fclose") =
               IF err' \in {"failed to initialize parser",
                            "failed to initialize emitter"}
                 THEN Count(trace', "fopen") ELSE 0
          /\ err' = "" =>
               /\ Count(trace', "yaml_parser_initialize")
                    + Count(trace', "yaml_emitter_initialize") = 1
               /\ last'.obj \in ParserIds =>
                    /\ parsers'[last'.obj].init
                    /\ parsers'[last'.obj].input = "file"
                    /\ Count(trace', "fopen") = 1
               /\ last'.obj \in EmitterIds =>
                    /\ emitters'[last'.obj].init
                    /\ emitters'[last'.obj].output =
                         IF Count(trace', "fopen") = 1 THEN "file" ELSE "stdout"]_vars

\* an emitter on stdout has been released: its engine state was deleted and
\* nothing was closed
C12_Witness ==
  /\ last.op = "free_emitter"
  /\ trace = <<Step("yaml_emitter_delete", 0)>>

(***************************************************************************)
(* SpecInit: constructor calls and explicit calls of __yaml_init__.        *)
(***************************************************************************)
InitCall == Y___yaml_init__

NextInit ==
  \/ InitCall
  \/ ConstructSome
  \/ FreeEvent

SpecInit == Init /\ [][NextInit]_vars

\* C14 as claimed: across constructor calls and explicit init calls, the body
\* of the initializer runs at most once, the initialized flag never returns
\* to false, and a keyword index, once resolved, never changes.
C14_Claimed ==
  [][/\ runs' <= 1
     /\ initialized => initialized'
     /\ \A k \in Keywords :
          keyword_index[k] # -1 => keyword_index'[k] = keyword_index[k]]_vars

(***************************************************************************)
(* SpecOpen: yaml_open with one mode, drawn at the start, or with none.    *)
(***************************************************************************)
NoMode == <<"no mode">>

InitOpen ==
  /\ events = [s \in Slots |-> NoEvent]
  /\ contents = [c \in ContentIds |-> NoContent]
  /\ parsers = [p \in ParserIds |-> NoParser]
  /\ emitters = [m \in EmitterIds |-> NoEmitter]
  /\ initialized = FALSE
  /\ keyword_index = [k \in Keywords |-> -1]
  /\ runs = 0
  /\ last = Call("none", <<>>, "", FALSE, NoField)
  /\ err = ""
  /\ trace = <<>>
  /\ result = "none"
  /\ text \in Modes \cup {NoMode}

OpenMode ==
  \E filename \in Filenames, fopen_ok \in BOOLEAN, init_ok \in BOOLEAN :
    /\ (Len(filename.s) = 0
          /\ open_branch(IF text = NoMode THEN <<"r">> ELSE text) = "parser")
         => ~fopen_ok
    /\ Y_yaml_open(IF text = NoMode THEN 1 ELSE 2, filename, text, fopen_ok,
                   init_ok)

NextOpen ==
  \/ OpenMode
  \/ ConstructSome
  \/ Parse
  \/ FreeParser
  \/ FreeEmitter

SpecOpen == InitOpen /\ [][NextOpen]_vars

\* C15 as claimed: opening with mode "r" or with no mode yields a parser in
\* mode ANY bound to the opened file; opening with mode "w" or "a" yields an
\* emitter; any other mode fails with the invalid-access-mode error and
\* creates neither.  (An open also fails when the file cannot be opened or
\* the engine cannot be initialized, and then creates nothing.)
C15_Claimed ==
  [][last'.op = "yaml_open" =>
       /\ text \in {<<"r">>, NoMode} =>
            /\ err' \in {"", "failed to open file for reading",
                         "failed to initialize parser"}
            /\ emitters' = emitters
            /\ IF err' = ""
                 THEN /\ last'.obj \in ParserIds
                      /\ ~parsers[last'.obj].alloc
                      /\ parsers'[last'.obj] =
                           [alloc |-> TRUE, init |-> TRUE, parsing |-> "ANY",
                            input |-> "file"]
                 ELSE parsers' = parsers
       /\ text \in {<<"w">>, <<"a">>} =>
            /\ err' \in {"", "failed to open file for writing",
                         "failed to initialize emitter"}
            /\ parsers' = parsers
            /\ IF err' = ""
                 THEN /\ last'.obj \in EmitterIds
                      /\ ~emitters[last'.obj].alloc
                      /\ emitters'[last'.obj].alloc
                      /\ emitters'[last'.obj].init
                 ELSE emitters' = emitters
       /\ text \notin {<<"r">>, NoMode, <<"w">>, <<"a">>} =>
            /\ err' = "invalid file access mode"
            /\ parsers' = parsers
            /\ emitters' = emitters]_vars

(***************************************************************************)
(* Claims on the order of an emit call, checked under Spec.                *)
(***************************************************************************)
\* the position at which an emit call failed: the event found uninitialized,
\* or the event the engine failed on
FailedAt ==
  IF err' = "unintialized event" THEN Len(trace') + 1 ELSE Len(trace')

\* C16 as claimed: an emit call hands its events to the engine in the order
\* the caller gave them and stops at the first failure: if event ek is
\* uninitialized or the engine fails on ek, e1..e(k-1) have been emitted and
\* are uninitialized, and e(k+1)..en are untouched and were never handed to
\* the engine.
C16_Claimed ==
  [][IsEmit =>
       LET args == last'.slots
       IN /\ Len(trace') <= Len(args)
          /\ \A i \in 1..Len(trace') : trace'[i] = Emitted(i)
          /\ err' = "" => Len(trace') = Len(args)
          /\ err' # "" =>
               /\ FailedAt \in 1..Len(args)
               /\ \A i \in 1..(FailedAt - 1) : ~events'[args[i]].init
               /\ \A j \in (FailedAt + 1)..Len(args) :
                    events'[args[j]] = events[args[j]]]_vars

\* C16 amended: the same, the events e(k+1)..en that are untouched being
\* those that are not also among e1..ek.
C16_EmitOrder ==
  [][IsEmit =>
       LET args == last'.slots
       IN /\ Len(trace') <= Len(args)
          /\ \A i \in 1..Len(trace') : trace'[i] = Emitted(i)
          /\ err' = "" => Len(trace') = Len(args)
          /\ err' # "" =>
               /\ FailedAt \in 1..Len(args)
               /\ \A i \in 1..(FailedAt - 1) : ~events'[args[i]].init
               /\ \A j \in (FailedAt + 1)..Len(args) :
                    args[j] \notin {args[i] : i \in 1..FailedAt} =>
                      /\ events'[args[j]] = events[args[j]]
                      /\ \A i \in 1..Len(trace') :
                           trace'[i].cid # events[args[j]].cid]_vars

\* C16 witness: the engine has failed on the first of two distinct events and
\* the second is still initialized.
C16_Witness ==
  /\ last.op = "yaml_emit"
  /\ err = "emitter error"
  /\ Len(last.slots) = 2
  /\ last.slots[1] # last.slots[2]
  /\ Len(trace) = 1
  /\ ~events[last.slots[1]].init
  /\ events[last.slots[2]].init

(***************************************************************************)
(* Claims on a failing parse, checked under SpecParse.                     *)
(***************************************************************************)
\* C17: when the engine fails inside a parse call that was given an event,
\* the event is left uninitialized, its prior content (if it had one)
\* released exactly once, and the parser's mode is PARSE; a parse into an
\* uninitialized event releases nothing.
C17_ParseFailure ==
  [][(IsParse /\ Len(last'.slots) = 1) =>
       LET s == last'.slots[1]
           old == events[s].cid
       IN /\ err' = "parser error" =>
               /\ ~events'[s].init
               /\ parsers'[last'.obj].parsing = "PARSE"
               /\ IF events[s].init
                    THEN /\ trace' = <<Step("yaml_event_delete", old),
                                       Step("yaml_parser_parse", 0)>>
                         /\ contents'[old].owner = "deleted"
                         /\ contents'[old].deleted = 1
                         /\ \A c \in ContentIds \ {old} :
                              contents'[c] = contents[c]
                    ELSE /\ trace' = <<Step("yaml_parser_parse", 0)>>
                         /\ contents' = contents
          /\ ~events[s].init =>
               /\ \A i \in 1..Len(trace') : trace'[i].what # "yaml_event_delete"
               /\ \A c \in ContentIds : contents'[c].deleted = contents[c].deleted]_vars

\* C17 witness: a parse into an uninitialized event whose content had been
\* released before has failed, releasing nothing.
C17_Witness ==
  /\ last.op = "yaml_parse"
  /\ err = "parser error"
  /\ Len(last.slots) = 1
  /\ trace = <<Step("yaml_parser_parse", 0)>>
  /\ ~events[last.slots[1]].init
  /\ events[last.slots[1]].cid \in ContentIds
  /\ contents[events[last.slots[1]].cid].deleted = 1
  /\ parsers[last.obj].parsing = "PARSE"

=============================================================================
